---- MODULE Spec2Model ----
(***************************************************************************)
(* ExcelProcessor: the main window (src/src/gui/main_window.py) and the    *)
(* background ProcessingThread it starts.                                  *)
(*                                                                         *)
(* MainWindow state: input_files, output_path, string_fields, process_btn, *)
(* progress_bar (its visibility), processing_thread.  ProcessingThread     *)
(* objects live in threads; each records in trace, in program order, the   *)
(* calls it makes to its collaborators (FileValidator, FileHandler,        *)
(* ExcelProcessor) and the signals it emits.  Outcome signals of a thread  *)
(* connected to the window travel through queue, the main thread's event   *)
(* queue (Qt queued connections), and are handled there one at a time.     *)
(*                                                                         *)
(* progress_updated is connected to QProgressBar.setValue (Qt code); the   *)
(* bar's value is not part of this model, so only the emission of a        *)
(* progress value is recorded, in the emitting thread's trace.             *)
(***************************************************************************)
EXTENDS FiniteSets, Integers, Sequences, TLC

VARIABLES
    input_files,        \* MainWindow.input_files: sequence of paths
    output_path,        \* MainWindow.output_path: a path, <<>> for ""
    string_fields,      \* text of the QLineEdit of each field key
    process_btn,        \* process_btn.isEnabled()
    progress_bar,       \* progress_bar.isVisible()
    processing_thread,  \* MainWindow.processing_thread: a thread id, 0 before the first run
    threads,            \* the ProcessingThread objects that exist, by id
    queue,              \* outcome signals posted to the main thread, not yet handled
    opened,             \* the path the last on_processing_complete handed to os.startfile, <<>> if none
    offered,            \* the drop or dialog selection the drop area was last given, <<>> where it is not followed
    rejected,           \* the title of the warning that answered the last click on Process, "" if it started a run
    crashed             \* the process was aborted by Qt (QThread destroyed while running)

vars == <<input_files, output_path, string_fields, process_btn, progress_bar,
          processing_thread, threads, queue, opened, rejected, offered, crashed>>

gui_vars == <<input_files, output_path, string_fields, process_btn, progress_bar,
              processing_thread, opened, rejected, offered>>

----------------------------------------------------------------------------
(* Bounds of the model *)

\* longest input list handed to a ProcessingThread constructed directly
MaxFiles == 3
\* most URLs in one drop or one file-dialog selection of the window at work
MaxDrop == 1
\* most URLs in one drop or one file-dialog selection of the drop area alone
MaxOffer == 3
\* most ProcessingThread objects (running, or with an unhandled outcome) at once
MaxThreads == 2

----------------------------------------------------------------------------
(* Values *)

\* A path is <<directory, file name>>; the empty string is <<>>.
Files == {<<"/data", "a.xlsx">>, <<"/data", "b.xls">>}
OutPaths == {<<"/out", "r1.xlsx">>, <<"/tmp", "r2.xlsx">>}

\* a path in a directory the process may not write to
ReadOnlyPaths == {<<"/readonly", "r3.xlsx">>}

\* the directories that exist and are writable
WritableDirs == {"/out", "/tmp"}

\* FileValidator.validate_output_path: the parent directory exists and is
\* writable and the file name is not empty
validate_output_path(path) ==
    /\ path # <<>>
    /\ path[1] \in WritableDirs
    /\ path[2] # ""

\* os.path.basename
basename(path) == path[2]

\* A text is a sequence of characters.
Blank == <<>>
Spaces == <<" ">>
Padded == <<" ", "a", " ">>
Plain == <<"b">>

RECURSIVE lstrip(_)
lstrip(s) == IF s # <<>> /\ Head(s) = " " THEN lstrip(Tail(s)) ELSE s

RECURSIVE rstrip(_)
rstrip(s) ==
    IF s # <<>> /\ s[Len(s)] = " " THEN rstrip(SubSeq(s, 1, Len(s) - 1)) ELSE s

\* str.strip
strip(s) == rstrip(lstrip(s))

\* the default field labels of setup_ui, character by character
FieldLabels ==
    <<<<"P", "r", "o", "j", "e", "c", "t", " ", "N", "a", "m", "e", ":">>,
      <<"D", "e", "p", "a", "r", "t", "m", "e", "n", "t", ":">>,
      <<"A", "n", "a", "l", "y", "s", "t", ":">>,
      <<"R", "e", "p", "o", "r", "t", " ", "D", "a", "t", "e", ":">>,
      <<"V", "e", "r", "s", "i", "o", "n", ":">>>>

\* str.lower, on the characters of the labels
lower_char(c) ==
    CASE c = "P" -> "p" [] c = "N" -> "n" [] c = "D" -> "d"
      [] c = "A" -> "a" [] c = "R" -> "r" [] c = "V" -> "v"
      [] OTHER -> c

\* field_key = label.replace(':', '').replace(' ', '_').lower()
RECURSIVE field_key(_)
field_key(label) ==
    IF label = <<>> THEN ""
    ELSE LET c == Head(label)
         IN  (IF c = ":" THEN "" ELSE IF c = " " THEN "_" ELSE lower_char(c))
                \o field_key(Tail(label))

\* the keys setup_ui derives from the default field labels
Keys == {field_key(FieldLabels[i]) : i \in 1..Len(FieldLabels)}

\* the order in which setup_ui inserts the keys into string_fields
KeyOrder == [i \in 1..Len(FieldLabels) |-> field_key(FieldLabels[i])]

\* the contents of the five fields the user is taken to leave the form in:
\* untouched, filled in, one field left blank, one field holding only spaces
Forms ==
    {[k \in Keys |-> Blank],
     [k \in Keys |-> IF k = "analyst" THEN Padded ELSE Plain],
     [k \in Keys |-> IF k = "version" THEN Spaces ELSE Padded]}

BoundedSeq(S, n) == UNION {[1..k -> S] : k \in 0..n}

ThreadIds == 1..MaxThreads

----------------------------------------------------------------------------
(* ProcessingThread *)

Ev(op, arg, res) == [op |-> op, arg |-> arg, res |-> res]

\* The text of an exception or of an error message is a sequence of parts:
\* a literal text, or a path formatted in full (the path itself).
Text(s) == <<s>>

\* the arguments a signal was emitted with: progress_updated = pyqtSignal(int),
\* processing_complete = pyqtSignal(str), processing_error = pyqtSignal(str)
signal_args(e) == <<e.arg>>

OutcomeSignals == {"processing_complete", "processing_error"}
Terminal == {"Completed", "Failed"}

\* ProcessingThread.__init__
ProcessingThread(files, values, path) ==
    [input_files |-> files, string_values |-> values, output_path |-> path,
     pc |-> "Idle", i |-> 0, loaded_data |-> <<>>, processed_data |-> <<>>,
     trace |-> <<>>, connected |-> FALSE, referenced |-> TRUE]

\* QThread.start(): run() begins on the worker thread
start_thread(th) == [th EXCEPT !.pc = "Validating", !.i = 0]

\* signal.emit(arg)
emit(th, sig, arg) == [th EXCEPT !.trace = Append(@, Ev(sig, arg, "emitted"))]

\* a call of a collaborator, with how it ended
call(th, op, arg, res) == [th EXCEPT !.trace = Append(@, Ev(op, arg, res))]

\* mutant: the exception is swallowed, nothing is emitted
except_handler_silent(th, e) == [th EXCEPT !.pc = "Failed"]

\* except Exception as e: the error message is emitted and run() returns
except_handler(th, e) ==
    [emit(th, "processing_error", <<Text("Error during processing: ")>> \o e)
        EXCEPT !.pc = "Failed"]

\* mutant: the progress is computed from the index, not from the number of
\* files done
validation_progress_from_index(i, total_files) == (i * 20) \div total_files

\* int((i + 1) / total_files * 20): the quotient is a binary float, truncated
\* by int(); for every i < total_files < 6000 the result equals the integer
\* quotient below (and likewise for the factor 40 of the loading band)
validation_progress(i, total_files) == ((i + 1) * 20) \div total_files

\* mutant: the loading band does not start at 20
loading_progress_no_base(i, total_files) == ((i + 1) * 40) \div total_files

\* 20 + int((i + 1) / total_files * 40)
loading_progress(i, total_files) == 20 + ((i + 1) * 40) \div total_files

\* A cell is a text; the empty cell is the empty text.
EmptyCell == <<>>

\* What is in the input files: a.xlsx has the columns Name and Amount and two
\* rows, b.xls the columns name and Region and one row.  A row maps the
\* column names of its table to cells.
Content(file_path) ==
    IF file_path[2] = "a.xlsx"
    THEN [header |-> <<"Name", "Amount">>,
          rows |-> <<[Name |-> <<"x">>, Amount |-> <<"1">>],
                     [Name |-> <<"y">>, Amount |-> EmptyCell]>>]
    ELSE [header |-> <<"name", "Region">>,
          rows |-> <<[name |-> <<"z">>, Region |-> <<"r">>]>>]

\* the table FileHandler.load_excel_file returns for a file
load_excel_file(file_path) ==
    [source |-> file_path,
     header |-> Content(file_path).header,
     rows |-> Content(file_path).rows]

\* str.lower, on the column names that occur
lower(name) ==
    CASE name = "Name" -> "name"
      [] name = "Amount" -> "amount"
      [] name = "Region" -> "region"
      [] OTHER -> name

\* a header with the names appended that it does not hold yet, compared
\* without regard to case
RECURSIVE union_header(_, _)
union_header(header, names) ==
    IF names = <<>> THEN header
    ELSE LET c == Head(names)
             present == \E k \in 1..Len(header) : lower(header[k]) = lower(c)
         IN  union_header(IF present THEN header ELSE Append(header, c), Tail(names))

\* the union of the headers of the tables, taken in order
RECURSIVE data_columns(_, _)
data_columns(header, tables) ==
    IF tables = <<>> THEN header
    ELSE data_columns(union_header(header, Head(tables).header), Tail(tables))

\* the merged row of one row of a table
merged_row(columns, table, row, metadata) ==
    [c \in {columns[k] : k \in 1..Len(columns)} \cup Keys |->
        IF c \in Keys THEN metadata[c]
        ELSE LET own == {k \in 1..Len(table.header) : lower(table.header[k]) = lower(c)}
             IN  IF own = {} THEN EmptyCell
                 ELSE row[table.header[CHOOSE k \in own : \A j \in own : k <= j]]]

\* the merged rows of the tables, table after table
RECURSIVE merged_rows(_, _, _)
merged_rows(columns, tables, metadata) ==
    IF tables = <<>> THEN <<>>
    ELSE LET table == Head(tables)
         IN  [k \in 1..Len(table.rows) |->
                    merged_row(columns, table, table.rows[k], metadata)]
                \o merged_rows(columns, Tail(tables), metadata)

\* what ExcelProcessor.process_files returns: the merged table
excel_process_files(loaded_data, string_values) ==
    LET columns == data_columns(<<>>, loaded_data)
    IN  [header |-> columns \o KeyOrder,
         rows |-> merged_rows(columns, loaded_data, string_values)]

\* mutant: an inaccessible file is recorded and the loop goes on
validate_file_keep_going(th, accessible) ==
    LET file_path == th.input_files[th.i + 1]
        called == call(th, "validate_file_accessibility", file_path,
                       IF accessible THEN "True" ELSE "False")
    IN  [emit(called, "progress_updated",
              ((th.i + 1) * 20) \div Len(th.input_files))
            EXCEPT !.i = th.i + 1]

\* mutant: the loop reads the window's current selection, not the list the
\* thread was constructed with
validate_file_current_selection(th, accessible) ==
    LET file_path == IF th.i + 1 <= Len(input_files)
                     THEN input_files[th.i + 1] ELSE th.input_files[th.i + 1]
        called == call(th, "validate_file_accessibility", file_path,
                       IF accessible THEN "True" ELSE "False")
    IN  IF ~accessible
        THEN [emit(called, "processing_error", <<Text("Error during processing: ")>>)
                EXCEPT !.pc = "Failed"]
        ELSE [emit(called, "progress_updated",
                   ((th.i + 1) * 20) \div Len(th.input_files))
                EXCEPT !.i = th.i + 1]

\* one iteration of the validation loop
validate_file(th, accessible) ==
    LET file_path == th.input_files[th.i + 1]
        called == call(th, "validate_file_accessibility", file_path,
                       IF accessible THEN "True" ELSE "False")
    IN  IF ~accessible
        THEN except_handler(called, <<Text("Cannot access file: "), file_path>>)
        ELSE [emit(called, "progress_updated",
                   validation_progress(th.i, Len(th.input_files)))
                EXCEPT !.i = th.i + 1]

\* the validation loop is over: loaded_data = []
begin_loading(th) == [th EXCEPT !.pc = "Loading", !.i = 0, !.loaded_data = <<>>]

\* mutant: the loaded table is put in front of the list
load_file_prepend(th, ok) ==
    LET file_path == th.input_files[th.i + 1]
        called == call(th, "load_excel_file", file_path,
                       IF ok THEN "returned" ELSE "raised")
    IN  IF ~ok
        THEN [emit(called, "processing_error", <<Text("Error during processing: ")>>)
                EXCEPT !.pc = "Failed"]
        ELSE [emit(called, "progress_updated",
                   20 + ((th.i + 1) * 40) \div Len(th.input_files))
                EXCEPT !.i = th.i + 1,
                       !.loaded_data = <<load_excel_file(file_path)>> \o @]

\* mutant: the loaded table replaces the list instead of being appended to it
load_file_keeps_last(th, ok) ==
    LET file_path == th.input_files[th.i + 1]
        called == call(th, "load_excel_file", file_path,
                       IF ok THEN "returned" ELSE "raised")
    IN  IF ~ok
        THEN [emit(called, "processing_error", <<Text("Error during processing: ")>>)
                EXCEPT !.pc = "Failed"]
        ELSE [emit(called, "progress_updated",
                   20 + ((th.i + 1) * 40) \div Len(th.input_files))
                EXCEPT !.i = th.i + 1,
                       !.loaded_data = <<load_excel_file(file_path)>>]

\* one iteration of the loading loop
load_file(th, ok) ==
    LET file_path == th.input_files[th.i + 1]
        called == call(th, "load_excel_file", file_path,
                       IF ok THEN "returned" ELSE "raised")
    IN  IF ~ok
        THEN except_handler(called, <<Text("load_excel_file: "), Text(basename(file_path))>>)
        ELSE [emit(called, "progress_updated",
                   loading_progress(th.i, Len(th.input_files)))
                EXCEPT !.i = th.i + 1,
                       !.loaded_data = Append(@, load_excel_file(file_path))]

\* the loading loop is over: progress 70
begin_merging(th) == [emit(th, "progress_updated", 70) EXCEPT !.pc = "Merging"]

\* mutant: 85 is emitted before the merge is called
merge_early_85(th, ok) ==
    LET announced == emit(th, "progress_updated", 85)
        called == call(announced, "process_files", <<th.loaded_data, th.string_values>>,
                       IF ok THEN "returned" ELSE "raised")
    IN  IF ~ok
        THEN [emit(called, "processing_error", <<Text("Error during processing: ")>>)
                EXCEPT !.pc = "Failed"]
        ELSE [called EXCEPT !.pc = "Saving",
                            !.processed_data =
                                excel_process_files(th.loaded_data, th.string_values)]

\* mutant: the tables are merged last-loaded first
merge_reversed(th, ok) ==
    LET n == Len(th.loaded_data)
        reversed == [k \in 1..n |-> th.loaded_data[n + 1 - k]]
        called == call(th, "process_files", <<th.loaded_data, th.string_values>>,
                       IF ok THEN "returned" ELSE "raised")
    IN  IF ~ok
        THEN [emit(called, "processing_error", <<Text("Error during processing: ")>>)
                EXCEPT !.pc = "Failed"]
        ELSE [emit(called, "progress_updated", 85)
                EXCEPT !.pc = "Saving",
                       !.processed_data =
                           excel_process_files(reversed, th.string_values)]

\* mutant: the merge is given the texts of an empty form, not the run's values
merge_blank_values(th, ok) ==
    LET called == call(th, "process_files", <<th.loaded_data, th.string_values>>,
                       IF ok THEN "returned" ELSE "raised")
    IN  IF ~ok
        THEN [emit(called, "processing_error", <<Text("Error during processing: ")>>)
                EXCEPT !.pc = "Failed"]
        ELSE [emit(called, "progress_updated", 85)
                EXCEPT !.pc = "Saving",
                       !.processed_data =
                           excel_process_files(th.loaded_data, [k \in Keys |-> Blank])]

\* excel_processor.process_files(loaded_data, self.string_values), then progress 85
merge(th, ok) ==
    LET called == call(th, "process_files", <<th.loaded_data, th.string_values>>,
                       IF ok THEN "returned" ELSE "raised")
    IN  IF ~ok
        THEN except_handler(called, <<Text("process_files")>>)
        ELSE [emit(called, "progress_updated", 85)
                EXCEPT !.pc = "Saving",
                       !.processed_data =
                           excel_process_files(th.loaded_data, th.string_values)]

\* mutant: 100 is emitted before the file is written
save_100_first(th, ok) ==
    LET announced == emit(th, "progress_updated", 100)
        called == call(announced, "save_excel_file", <<th.processed_data, th.output_path>>,
                       IF ok THEN "returned" ELSE "raised")
    IN  IF ~ok
        THEN [emit(called, "processing_error", <<Text("Error during processing: ")>>)
                EXCEPT !.pc = "Failed"]
        ELSE [called EXCEPT !.pc = "Finishing"]

\* file_handler.save_excel_file(processed_data, self.output_path), then progress 100
save(th, ok) ==
    LET called == call(th, "save_excel_file", <<th.processed_data, th.output_path>>,
                       IF ok THEN "returned" ELSE "raised")
    IN  IF ~ok
        THEN except_handler(called, <<Text("save_excel_file")>>)
        ELSE [emit(called, "progress_updated", 100) EXCEPT !.pc = "Finishing"]

\* processing_complete.emit(...), the last statement of run()
complete(th) ==
    [emit(th, "processing_complete",
          <<"Successfully processed ", Len(th.input_files),
            " files and saved to ", basename(th.output_path), "!">>)
        EXCEPT !.pc = "Completed"]

----------------------------------------------------------------------------
(* Steps of a running thread *)

\* the events a step appended to the trace
Fresh(th, next) == SubSeq(next.trace, Len(th.trace) + 1, Len(next.trace))

\* the outcome signals among them, as posted to the main thread
Posted(t, th, next) ==
    LET out == SelectSeq(Fresh(th, next), LAMBDA e : e.op \in OutcomeSignals)
    IN  [k \in 1..Len(out) |-> [thread |-> t, sig |-> out[k].op, arg |-> out[k].arg]]

\* Thread t moves from threads[t] to next.  A thread object the window no
\* longer references is destroyed when its run() returns; Qt may then abort
\* the process ("QThread: Destroyed while thread is still running").
Advance(t, next) ==
    LET th == threads[t]
    IN  /\ queue' = IF th.connected THEN queue \o Posted(t, th, next) ELSE queue
        /\ IF next.pc \in Terminal /\ ~th.referenced
           THEN /\ threads' = [u \in DOMAIN threads \ {t} |-> threads[u]]
                /\ crashed' \in BOOLEAN
           ELSE /\ threads' = [threads EXCEPT ![t] = next]
                /\ crashed' = crashed
        /\ UNCHANGED gui_vars

Running(t) == ~crashed /\ t \in DOMAIN threads

start(t) ==
    /\ Running(t) /\ threads[t].pc = "Idle"
    /\ Advance(t, start_thread(threads[t]))

run_validate(t) ==
    /\ Running(t) /\ threads[t].pc = "Validating"
    /\ threads[t].i < Len(threads[t].input_files)
    /\ \E accessible \in BOOLEAN : Advance(t, validate_file(threads[t], accessible))

\* mutant: the validation loop is left after its first iteration
run_begin_loading_early(t) ==
    /\ Running(t) /\ threads[t].pc = "Validating"
    /\ threads[t].i >= 1 \/ threads[t].i = Len(threads[t].input_files)
    /\ Advance(t, [threads[t] EXCEPT !.pc = "Loading", !.i = 0, !.loaded_data = <<>>])

run_begin_loading(t) ==
    /\ Running(t) /\ threads[t].pc = "Validating"
    /\ threads[t].i = Len(threads[t].input_files)
    /\ Advance(t, begin_loading(threads[t]))

run_load(t) ==
    /\ Running(t) /\ threads[t].pc = "Loading"
    /\ threads[t].i < Len(threads[t].input_files)
    /\ \E ok \in BOOLEAN : Advance(t, load_file(threads[t], ok))

run_begin_merging(t) ==
    /\ Running(t) /\ threads[t].pc = "Loading"
    /\ threads[t].i = Len(threads[t].input_files)
    /\ Advance(t, begin_merging(threads[t]))

run_merge(t) ==
    /\ Running(t) /\ threads[t].pc = "Merging"
    /\ \E ok \in BOOLEAN : Advance(t, merge(threads[t], ok))

run_save(t) ==
    /\ Running(t) /\ threads[t].pc = "Saving"
    /\ \E ok \in BOOLEAN : Advance(t, save(threads[t], ok))

\* mutant: run() waits for the window to take the thread before it reports
run_complete_waits(t) ==
    /\ Running(t) /\ threads[t].pc = "Finishing"
    /\ processing_thread = t
    /\ Advance(t, [emit(threads[t], "processing_complete", <<"Successfully processed">>)
                     EXCEPT !.pc = "Completed"])

run_complete(t) ==
    /\ Running(t) /\ threads[t].pc = "Finishing"
    /\ Advance(t, complete(threads[t]))

\* a step of ProcessingThread.run
run(t) ==
    \/ run_validate(t)
    \/ run_begin_loading(t)
    \/ run_load(t)
    \/ run_begin_merging(t)
    \/ run_merge(t)
    \/ run_save(t)
    \/ run_complete(t)

----------------------------------------------------------------------------
(* A ProcessingThread on its own: constructed with any arguments, started, *)
(* connected to nothing.                                                   *)

StringValues == {[k \in Keys |-> strip(form[k])] : form \in Forms}

\* MainWindow.__init__ and setup_ui
InitWindow ==
    /\ input_files = <<>>
    /\ output_path = <<>>
    /\ string_fields = [k \in Keys |-> Blank]
    /\ process_btn = FALSE
    /\ progress_bar = FALSE
    /\ processing_thread = 0
    /\ queue = <<>>
    /\ opened = <<>>
    /\ rejected = ""
    /\ offered = <<>>
    /\ crashed = FALSE

InitRun ==
    /\ InitWindow
    /\ \E files \in BoundedSeq(Files, MaxFiles), values \in StringValues,
          path \in OutPaths \cup ReadOnlyPaths :
            threads = (1 :> ProcessingThread(files, values, path))

NextRun == \E t \in ThreadIds : start(t) \/ run(t)

SpecRun == InitRun /\ [][NextRun]_vars

\* the worker thread is scheduled, and every collaborator call returns or raises
FairRun == SpecRun /\ WF_vars(NextRun)

----------------------------------------------------------------------------
(* The main window *)

\* longest text FileValidator.validate_string_inputs accepts in a field
MaxFieldLength == 256

\* FileValidator.validate_string_inputs: the error messages, field by field
RECURSIVE field_errors(_, _)
field_errors(values, keys) ==
    IF keys = <<>> THEN <<>>
    ELSE LET k == Head(keys)
             empty == IF strip(values[k]) = <<>> THEN <<<<k, "empty">>>> ELSE <<>>
             long == IF Len(values[k]) > MaxFieldLength
                     THEN <<<<k, "too long">>>> ELSE <<>>
         IN  empty \o long \o field_errors(values, Tail(keys))

validate_string_inputs(values) == field_errors(values, KeyOrder)

\* mutant: the texts are taken as they are typed
get_string_values_untrimmed == [k \in Keys |-> string_fields[k]]

\* MainWindow.get_string_values
get_string_values == [k \in Keys |-> strip(string_fields[k])]

\* MainWindow.update_process_button_state
can_process(files, path) == files # <<>> /\ path # <<>>

\* the offered paths FileValidator.is_valid_excel_file accepted, in order
RECURSIVE valid_files(_, _)
valid_files(urls, verdict) ==
    IF urls = <<>> THEN <<>>
    ELSE (IF Head(verdict) THEN <<Head(urls)>> ELSE <<>>)
            \o valid_files(Tail(urls), Tail(verdict))

\* mutant: the files are added to the selection
on_files_selected_extends(files) ==
    /\ input_files' = input_files \o files
    /\ process_btn' = can_process(input_files \o files, output_path)

\* MainWindow.on_files_selected, the slot of FileDropArea.files_dropped
on_files_selected(files) ==
    /\ input_files' = files
    /\ process_btn' = can_process(files, output_path)

\* the body of dropEvent, on the URLs of the event and the answers of
\* FileValidator.is_valid_excel_file
drop_urls(urls, verdict) ==
    LET files == valid_files(urls, verdict)
    IN  IF files # <<>>
        THEN on_files_selected(files)
        ELSE UNCHANGED <<input_files, process_btn>>

\* the body of browse_files, on what the file dialog returned
browse_selected(selected, verdict) ==
    LET files == valid_files(selected, verdict)
    IN  IF selected # <<>> /\ files # <<>>
        THEN on_files_selected(files)
        ELSE UNCHANGED <<input_files, process_btn>>

\* FileDropArea.dropEvent: the user drops URLs on the drop area
dropEvent ==
    /\ ~crashed
    /\ \E urls \in BoundedSeq(Files, MaxDrop) \ {<<>>} :
       \E verdict \in [1..Len(urls) -> BOOLEAN] : drop_urls(urls, verdict)
    /\ UNCHANGED <<output_path, string_fields, progress_bar, processing_thread,
                   threads, queue, opened, rejected, offered, crashed>>

\* FileDropArea.browse_files: the user picks files in the file dialog, or cancels it
browse_files ==
    /\ ~crashed
    /\ \E selected \in BoundedSeq(Files, MaxDrop) :
       \E verdict \in [1..Len(selected) -> BOOLEAN] : browse_selected(selected, verdict)
    /\ UNCHANGED <<output_path, string_fields, progress_bar, processing_thread,
                   threads, queue, opened, rejected, offered, crashed>>

\* MainWindow.choose_output_location: the save dialog returns file_path ("" when
\* cancelled), which is kept if FileValidator.validate_output_path accepts it
choose_output_location ==
    /\ ~crashed
    /\ \E file_path \in OutPaths \cup ReadOnlyPaths \cup {<<>>} :
            IF file_path # <<>> /\ validate_output_path(file_path)
            THEN /\ output_path' = file_path
                 /\ process_btn' = can_process(input_files, file_path)
            ELSE UNCHANGED <<output_path, process_btn>>
    /\ UNCHANGED <<input_files, string_fields, progress_bar, processing_thread,
                   threads, queue, opened, rejected, offered, crashed>>

\* the user edits the texts of the fields setup_ui created
edit_fields ==
    /\ ~crashed
    /\ \E form \in Forms : string_fields' = form
    /\ UNCHANGED <<input_files, output_path, process_btn, progress_bar,
                   processing_thread, threads, queue, opened, rejected, offered, crashed>>

\* the ids no thread object and no posted signal uses
FreeIds(kept) == ThreadIds \ (DOMAIN kept \cup {queue[k].thread : k \in 1..Len(queue)})

\* self.processing_thread = ProcessingThread(...): the window's reference to
\* the previous thread object is dropped.  A finished thread is destroyed; a
\* running one lives on until its run() returns.
release(t) ==
    IF t \notin DOMAIN threads THEN threads
    ELSE IF threads[t].pc \in Terminal
         THEN [u \in DOMAIN threads \ {t} |-> threads[u]]
         ELSE [threads EXCEPT ![t].referenced = FALSE]

\* the warning process_files answers a click with, "" when it goes on
refusal(string_values) ==
    IF input_files = <<>> THEN "No Files"
    ELSE IF output_path = <<>> THEN "No Output Location"
    ELSE IF validate_string_inputs(string_values) # <<>> THEN "Invalid Configuration"
    ELSE ""

\* self.processing_thread = ProcessingThread(...), connected and started;
\* the button is disabled and the progress bar shown
start_processing(string_values) ==
    LET kept == release(processing_thread)
        new == [ProcessingThread(input_files, string_values, output_path)
                    EXCEPT !.connected = TRUE]
    IN  /\ FreeIds(kept) # {}
        /\ LET t == CHOOSE id \in FreeIds(kept) :
                        \A other \in FreeIds(kept) : id <= other
           IN  /\ processing_thread' = t
               /\ threads' = [u \in DOMAIN kept \cup {t} |->
                                IF u = t THEN start_thread(new) ELSE kept[u]]
        /\ process_btn' = FALSE
        /\ progress_bar' = TRUE
        /\ rejected' = ""
        /\ UNCHANGED <<input_files, output_path, string_fields, queue,
                       opened, offered, crashed>>

\* mutant: the values of the fields are not validated
process_files_unvalidated ==
    /\ ~crashed
    /\ process_btn
    /\ LET string_values == get_string_values
       IN  IF input_files = <<>> \/ output_path = <<>>
           THEN /\ rejected' = "No Files"
                /\ UNCHANGED <<input_files, output_path, string_fields, process_btn,
                               progress_bar, processing_thread, threads, queue,
                               opened, offered, crashed>>
           ELSE start_processing(string_values)

\* MainWindow.process_files: the user clicks the enabled Process button
process_files ==
    /\ ~crashed
    /\ process_btn
    /\ LET string_values == get_string_values
       IN  IF refusal(string_values) # ""
           THEN /\ rejected' = refusal(string_values)
                /\ UNCHANGED <<input_files, output_path, string_fields, process_btn,
                               progress_bar, processing_thread, threads, queue,
                               opened, offered, crashed>>
           ELSE start_processing(string_values)

\* MainWindow.on_processing_complete: the main thread handles a posted
\* processing_complete; the user answers the "Open File?" question and
\* os.startfile opens the file or raises
on_processing_complete ==
    /\ ~crashed
    /\ queue # <<>> /\ Head(queue).sig = "processing_complete"
    /\ queue' = Tail(queue)
    /\ progress_bar' = FALSE
    /\ process_btn' = TRUE
    /\ \E reply \in {"Yes", "No"}, started \in BOOLEAN :
            opened' = IF reply = "Yes" /\ started THEN output_path ELSE <<>>
    /\ UNCHANGED <<input_files, output_path, string_fields, processing_thread,
                   threads, rejected, offered, crashed>>

\* MainWindow.on_processing_error: the main thread handles a posted processing_error
on_processing_error ==
    /\ ~crashed
    /\ queue # <<>> /\ Head(queue).sig = "processing_error"
    /\ queue' = Tail(queue)
    /\ progress_bar' = FALSE
    /\ process_btn' = TRUE
    /\ UNCHANGED <<input_files, output_path, string_fields, processing_thread,
                   threads, opened, rejected, offered, crashed>>

Init ==
    /\ InitWindow
    /\ threads = <<>>

Next ==
    \/ dropEvent
    \/ browse_files
    \/ choose_output_location
    \/ edit_fields
    \/ process_files
    \/ on_processing_complete
    \/ on_processing_error
    \/ \E t \in ThreadIds : run(t)

Spec == Init /\ [][Next]_vars

----------------------------------------------------------------------------
(* The drop area on its own: what it is given is kept in offered, with the  *)
(* answers FileValidator.is_valid_excel_file gives for it, until the next   *)
(* drop or dialog.                                                          *)

Offer(kind, urls, verdict, handled) ==
    <<[kind |-> kind, urls |-> urls, verdict |-> verdict, handled |-> handled]>>

\* the user drops URLs on the drop area, or closes the file dialog of Browse
offer ==
    /\ IF offered = <<>> THEN TRUE ELSE Head(offered).handled
    /\ \E kind \in {"drop", "browse"}, urls \in BoundedSeq(Files, MaxOffer) :
       \E verdict \in [1..Len(urls) -> BOOLEAN] :
            /\ kind = "drop" => urls # <<>>
            /\ offered' = Offer(kind, urls, verdict, FALSE)
    /\ UNCHANGED <<input_files, output_path, string_fields, process_btn, progress_bar,
                   processing_thread, threads, queue, opened, rejected, crashed>>

\* FileDropArea.dropEvent on the URLs dropped
handle_dropEvent ==
    /\ offered # <<>> /\ ~Head(offered).handled /\ Head(offered).kind = "drop"
    /\ drop_urls(Head(offered).urls, Head(offered).verdict)
    /\ offered' = <<[Head(offered) EXCEPT !.handled = TRUE]>>
    /\ UNCHANGED <<output_path, string_fields, progress_bar, processing_thread,
                   threads, queue, opened, rejected, crashed>>

\* FileDropArea.browse_files on the files picked in the dialog
handle_browse_files ==
    /\ offered # <<>> /\ ~Head(offered).handled /\ Head(offered).kind = "browse"
    /\ browse_selected(Head(offered).urls, Head(offered).verdict)
    /\ offered' = <<[Head(offered) EXCEPT !.handled = TRUE]>>
    /\ UNCHANGED <<output_path, string_fields, progress_bar, processing_thread,
                   threads, queue, opened, rejected, crashed>>

NextSelect == offer \/ handle_dropEvent \/ handle_browse_files

SpecSelect == Init /\ [][NextSelect]_vars

----------------------------------------------------------------------------
(* Reading a thread's trace *)

Calls(th, op) == SelectSeq(th.trace, LAMBDA e : e.op = op)

\* the values emitted on progress_updated, in order
ProgressOf(th) ==
    LET s == Calls(th, "progress_updated") IN [k \in 1..Len(s) |-> s[k].arg]

\* the terminal signals emitted, in order
Outcomes(th) == SelectSeq(th.trace, LAMBDA e : e.op \in OutcomeSignals)

IsProgress(e, value) == e.op = "progress_updated" /\ e.arg = value

\* the state of the orchestrator's state machine a thread is in
Phase(th) == IF th.pc = "Finishing" THEN "Saving" ELSE th.pc

----------------------------------------------------------------------------
(* Claims about ProcessingThread.run *)

\* C1: the values a run emits on progress_updated never decrease, whatever
\* the length of the input list and wherever the run fails, and a run that
\* ends in success has emitted 100 last.
C1_ProgressMonotone ==
    \A t \in DOMAIN threads :
        LET p == ProgressOf(threads[t])
        IN  /\ \A k \in 1..(Len(p) - 1) : p[k] <= p[k + 1]
            /\ threads[t].pc = "Completed" => p # <<>> /\ p[Len(p)] = 100

\* a successful run over several files: validation, loading, 70, 85, 100
C1_Witness ==
    \E t \in DOMAIN threads :
        /\ threads[t].pc = "Completed"
        /\ Len(threads[t].input_files) >= 2
        /\ Len(ProgressOf(threads[t])) = 2 * Len(threads[t].input_files) + 3

\* C2: a run emits no outcome while it is under way and exactly one when it
\* has ended, processing_complete after a success and processing_error after
\* a failure, and that outcome is the last thing the run emits: no
\* progress_updated follows it.
C2_OneOutcomeLast ==
    \A t \in DOMAIN threads :
        LET th == threads[t]
            out == Outcomes(th)
        IN  /\ Len(out) <= 1
            /\ th.pc \in Terminal <=> Len(out) = 1
            /\ Len(out) = 1 =>
                /\ th.trace[Len(th.trace)].op \in OutcomeSignals
                /\ th.pc = "Completed" <=> out[1].op = "processing_complete"
                /\ th.pc = "Failed" <=> out[1].op = "processing_error"

\* a run that failed after it had emitted progress
C2_Witness ==
    \E t \in DOMAIN threads :
        /\ threads[t].pc = "Failed"
        /\ Len(ProgressOf(threads[t])) >= 2
        /\ Len(Outcomes(threads[t])) = 1

\* the runs under way: started, and not yet Completed or Failed
ActiveRuns ==
    {t \in DOMAIN threads :
        Phase(threads[t]) \in {"Validating", "Loading", "Merging", "Saving"}}

\* C3: whatever the user does and whenever the worker's signals arrive, at
\* most one run is under way: process_files starts no ProcessingThread while
\* an earlier one is still Validating, Loading, Merging or Saving.
C3_OneActiveRun == Cardinality(ActiveRuns) <= 1

\* C4: a run given an empty input list is rejected before any phase starts:
\* it emits no progress, calls neither load, merge nor save, and does not
\* end in success.
C4_EmptyListRejected ==
    \A t \in DOMAIN threads :
        LET th == threads[t]
        IN  th.input_files = <<>> =>
                /\ ProgressOf(th) = <<>>
                /\ Calls(th, "load_excel_file") = <<>>
                /\ Calls(th, "process_files") = <<>>
                /\ Calls(th, "save_excel_file") = <<>>
                /\ th.pc # "Completed"

\* the number of files a run has validated so far
Validated(th) ==
    CASE th.pc = "Idle" -> 0
      [] th.pc = "Validating" -> th.i
      [] th.pc = "Failed" -> Len(SelectSeq(Calls(th, "validate_file_accessibility"),
                                           LAMBDA e : e.res = "True"))
      [] OTHER -> Len(th.input_files)

\* the checks the Validating phase has made, in order
ValidationChecks(th) ==
    SelectSeq(th.trace, LAMBDA e :
        e.op \in {"validate_file_accessibility", "is_valid_excel_file"})

\* C5: in the Validating phase every file is checked, in input order, first
\* for accessibility and then for being a valid spreadsheet, and a failed
\* check makes the run fail.
C5_BothChecksPerFile ==
    \A t \in DOMAIN threads :
        LET th == threads[t]
            checks == ValidationChecks(th)
        IN  /\ Len(checks) >= 2 * Validated(th)
            /\ \A k \in 1..Validated(th) :
                /\ checks[2 * k - 1].op = "validate_file_accessibility"
                /\ checks[2 * k - 1].arg = th.input_files[k]
                /\ checks[2 * k].op = "is_valid_excel_file"
                /\ checks[2 * k].arg = th.input_files[k]
            /\ \A k \in 1..Len(checks) : checks[k].res = "False" => th.pc = "Failed"

\* C6: validation is fail-fast: when a file fails validation it is the last
\* one validated, no file is loaded, merge and save are not called, and the
\* run has ended in failure with the Loading phase never entered.
C6_ValidationFailFast ==
    \A t \in DOMAIN threads :
        LET th == threads[t]
            v == Calls(th, "validate_file_accessibility")
        IN  \A k \in 1..Len(v) :
                v[k].res = "False" =>
                    /\ k = Len(v)
                    /\ \A j \in 1..(k - 1) : v[j].res = "True"
                    /\ th.pc = "Failed"
                    /\ th.loaded_data = <<>>
                    /\ Calls(th, "load_excel_file") = <<>>
                    /\ Calls(th, "process_files") = <<>>
                    /\ Calls(th, "save_excel_file") = <<>>

\* the first of several files failed validation: the others were not checked
C6_Witness ==
    \E t \in DOMAIN threads :
        LET v == Calls(threads[t], "validate_file_accessibility")
        IN  /\ Len(threads[t].input_files) >= 2
            /\ Len(v) = 1
            /\ v[1].res = "False"
            /\ threads[t].pc = "Failed"

\* the phases in the order a successful run goes through them
PhaseOrder == <<"Idle", "Validating", "Loading", "Merging", "Saving", "Completed">>

PhaseIndex(ph) == CHOOSE k \in 1..Len(PhaseOrder) : PhaseOrder[k] = ph

AllReturned(th, op, res) ==
    LET c == Calls(th, op)
    IN  /\ Len(c) = Len(th.input_files)
        /\ \A k \in 1..Len(c) : c[k].res = res

\* a step of one thread respects the order of the phases
PhaseStep(a, b) ==
    /\ Phase(a) \in Terminal => b = a
    /\ Phase(b) # Phase(a) =>
        \/ /\ Phase(b) = "Failed"
           /\ Phase(a) \in {"Validating", "Loading", "Merging", "Saving"}
           \* the failed call is the only call of the step: it is not retried
           /\ Len(b.trace) = Len(a.trace) + 2
           /\ b.trace[Len(b.trace) - 1].res \in {"False", "raised"}
        \/ /\ Phase(b) # "Failed"
           /\ PhaseIndex(Phase(b)) = PhaseIndex(Phase(a)) + 1
    /\ Phase(b) = "Loading" =>
        AllReturned(b, "validate_file_accessibility", "True")
    /\ Phase(b) = "Merging" => AllReturned(b, "load_excel_file", "returned")
    /\ Phase(b) = "Saving" =>
        /\ Len(Calls(b, "process_files")) = 1
        /\ Calls(b, "process_files")[1].res = "returned"
    /\ Phase(b) = "Completed" =>
        /\ Len(Calls(b, "save_excel_file")) = 1
        /\ Calls(b, "save_excel_file")[1].res = "returned"
    /\ Phase(b) \in {"Idle", "Validating"} => Calls(b, "load_excel_file") = <<>>
    /\ Phase(b) \in {"Idle", "Validating", "Loading"} => Calls(b, "process_files") = <<>>
    /\ Phase(b) \in {"Idle", "Validating", "Loading", "Merging"} =>
        Calls(b, "save_excel_file") = <<>>

\* C7: a run goes through Idle, Validating, Loading, Merging, Saving,
\* Completed in this order, one phase at a time; a phase is entered only when
\* the previous one is done for all files; a failure leads from the phase it
\* happens in straight to Failed, the failed call is not repeated, and nothing
\* happens after Completed or Failed.
C7_PhaseOrder ==
    [][\A t \in ThreadIds :
          (t \in DOMAIN threads /\ t \in DOMAIN threads') =>
              PhaseStep(threads[t], threads'[t])]_vars

\* a run over several files that went through every phase
C7_Witness ==
    \E t \in DOMAIN threads :
        /\ threads[t].pc = "Completed"
        /\ Len(threads[t].input_files) >= 2
        /\ AllReturned(threads[t], "load_excel_file", "returned")

Started(t) == t \in DOMAIN threads /\ threads[t].pc # "Idle"
Ended(t) == t \in DOMAIN threads /\ threads[t].pc \in Terminal

\* C8: once started, a run eventually reaches Completed or Failed, given
\* only that the worker thread runs and that each collaborator call returns
\* or raises: it never waits for the window.
C8_RunTerminates == \A t \in ThreadIds : Started(t) ~> Ended(t)

\* a run that failed in its last phase, after validating and loading every file
C8_Witness ==
    \E t \in DOMAIN threads :
        /\ threads[t].pc = "Failed"
        /\ Len(threads[t].input_files) >= 1
        /\ Len(Calls(threads[t], "save_excel_file")) = 1

\* C9: the files are loaded one by one in input order, each once, and the
\* merge receives their tables in that order; a load that raises is the last
\* load of the run, which ends in failure with merge and save never called.
C9_LoadInOrder ==
    \A t \in DOMAIN threads :
        LET th == threads[t]
            l == Calls(th, "load_excel_file")
            m == Calls(th, "process_files")
        IN  /\ Len(l) <= Len(th.input_files)
            /\ \A k \in 1..Len(l) : l[k].arg = th.input_files[k]
            /\ l # <<>> => AllReturned(th, "validate_file_accessibility", "True")
            /\ \A k \in 1..Len(l) :
                l[k].res = "raised" =>
                    /\ k = Len(l)
                    /\ th.pc = "Failed"
                    /\ m = <<>>
                    /\ Calls(th, "save_excel_file") = <<>>
            /\ \A k \in 1..Len(m) :
                /\ AllReturned(th, "load_excel_file", "returned")
                /\ m[k].arg[1] =
                     [j \in 1..Len(th.input_files) |-> load_excel_file(th.input_files[j])]

\* the merge was handed the tables of two different files
C9_Witness ==
    \E t \in DOMAIN threads :
        LET m == Calls(threads[t], "process_files")
        IN  /\ Len(m) = 1
            /\ Len(m[1].arg[1]) >= 2
            /\ m[1].arg[1][1] # m[1].arg[1][2]

\* C10: the merge is called at most once, and once in a run that got past
\* Merging, over all the loaded tables; 70 is emitted before the call and 85
\* only after the call has returned; a merge that raises ends the run in
\* failure, with 85 never emitted and save never called.
C10_MergeOnce ==
    \A t \in DOMAIN threads :
        LET th == threads[t]
            tr == th.trace
            m == Calls(th, "process_files")
        IN  /\ Len(m) <= 1
            /\ th.pc \in {"Saving", "Finishing", "Completed"} =>
                Len(m) = 1 /\ m[1].res = "returned"
            /\ \A k \in 1..Len(tr) :
                /\ tr[k].op = "process_files" =>
                    /\ \E j \in 1..(k - 1) : IsProgress(tr[j], 70)
                    /\ \A j \in 1..(k - 1) : ~IsProgress(tr[j], 85)
                    /\ Len(tr[k].arg[1]) = Len(th.input_files)
                    /\ tr[k].arg[1] = th.loaded_data
                /\ IsProgress(tr[k], 85) =>
                    \E j \in 1..(k - 1) :
                        tr[j].op = "process_files" /\ tr[j].res = "returned"
            /\ \A k \in 1..Len(m) :
                m[k].res = "raised" =>
                    /\ th.pc = "Failed"
                    /\ \A j \in 1..Len(tr) : ~IsProgress(tr[j], 85)
                    /\ Calls(th, "save_excel_file") = <<>>

\* a merge that raised, after 70 was emitted
C10_Witness ==
    \E t \in DOMAIN threads :
        LET m == Calls(threads[t], "process_files")
        IN  /\ Len(m) = 1
            /\ m[1].res = "raised"
            /\ Len(threads[t].input_files) >= 2
            /\ \E j \in 1..Len(threads[t].trace) : IsProgress(threads[t].trace[j], 70)

\* C11: save is called at most once, only after every file was validated and
\* loaded and the merge returned, on the merged data and the run's output
\* path; 100 is emitted exactly when the save has returned, right after it,
\* and only the success outcome follows it, whose message names the number
\* of input files and the output file's name; a save that raises ends the
\* run in failure with 100 never emitted.
C11_SaveOnce ==
    \A t \in DOMAIN threads :
        LET th == threads[t]
            tr == th.trace
            s == Calls(th, "save_excel_file")
        IN  /\ Len(s) <= 1
            /\ \A k \in 1..Len(tr) :
                /\ tr[k].op = "save_excel_file" =>
                    /\ AllReturned(th, "validate_file_accessibility", "True")
                    /\ AllReturned(th, "load_excel_file", "returned")
                    /\ \E j \in 1..(k - 1) :
                        tr[j].op = "process_files" /\ tr[j].res = "returned"
                    /\ tr[k].arg = <<th.processed_data, th.output_path>>
                    /\ tr[k].res = "returned" =>
                        k < Len(tr) /\ IsProgress(tr[k + 1], 100)
                    /\ tr[k].res = "raised" =>
                        /\ th.pc = "Failed"
                        /\ \A j \in 1..Len(tr) : ~IsProgress(tr[j], 100)
                /\ IsProgress(tr[k], 100) =>
                    /\ k > 1
                    /\ tr[k - 1].op = "save_excel_file"
                    /\ tr[k - 1].res = "returned"
                    /\ th.pc \in {"Finishing", "Completed"}
                    /\ k < Len(tr) =>
                        /\ k + 1 = Len(tr)
                        /\ tr[k + 1].op = "processing_complete"
                /\ tr[k].op = "processing_complete" =>
                    /\ k > 1 /\ IsProgress(tr[k - 1], 100)
                    /\ tr[k].arg[2] = Len(th.input_files)
                    /\ tr[k].arg[4] = basename(th.output_path)
            /\ th.pc = "Completed" => tr[Len(tr)].op = "processing_complete"

\* a run over two files that saved and reported "2 files"
C11_Witness ==
    \E t \in DOMAIN threads :
        LET th == threads[t]
        IN  /\ th.pc = "Completed"
            /\ Len(th.input_files) = 2
            /\ th.trace[Len(th.trace)].arg[2] = 2
            /\ Len(Calls(th, "save_excel_file")) = 1

\* the machine-readable kinds of failure
Kinds ==
    {"ValidationError", "ReadError", "SchemaConflictError", "WriteError", "UnknownError"}

\* the kind of the failure of a collaborator call
KindOfCall(op) ==
    CASE op = "validate_file_accessibility" -> "ValidationError"
      [] op = "load_excel_file" -> "ReadError"
      [] op = "process_files" -> "SchemaConflictError"
      [] op = "save_excel_file" -> "WriteError"
      [] OTHER -> "UnknownError"

\* C12: the failure outcome of a run carries two things, a machine-readable
\* kind and the message, and the kind is that of the phase the failed call
\* belongs to.
C12_FailureKind ==
    \A t \in DOMAIN threads :
        LET th == threads[t]
            tr == th.trace
        IN  th.pc = "Failed" =>
                LET args == signal_args(tr[Len(tr)])
                IN  /\ Len(args) = 2
                    /\ args[1] \in Kinds
                    /\ args[1] = KindOfCall(tr[Len(tr) - 1].op)

\* C14: a run whose output path is not valid never reaches the Validating
\* phase of its input files: no file is checked or loaded, nothing is merged
\* and nothing is written.
C14_InvalidOutputRejected ==
    \A t \in DOMAIN threads :
        LET th == threads[t]
        IN  ~validate_output_path(th.output_path) =>
                /\ Calls(th, "validate_file_accessibility") = <<>>
                /\ Calls(th, "load_excel_file") = <<>>
                /\ Calls(th, "process_files") = <<>>
                /\ Calls(th, "save_excel_file") = <<>>
                /\ th.pc \in {"Idle", "Validating", "Failed"}
                /\ ProgressOf(th) = <<>>

\* C16: the message a failed run emits on processing_error holds no input
\* file's path in full.
C16_NoPathInErrorMessage ==
    \A t \in DOMAIN threads :
        LET th == threads[t]
            tr == th.trace
        IN  \A k \in 1..Len(tr) :
                tr[k].op = "processing_error" =>
                    \A j \in 1..Len(tr[k].arg), f \in 1..Len(th.input_files) :
                        tr[k].arg[j] # th.input_files[f]

----------------------------------------------------------------------------
(* Claims about the merged output *)

\* the tables the load calls of a run returned, in the order of the calls
LoadedTables(th) ==
    LET l == SelectSeq(Calls(th, "load_excel_file"), LAMBDA e : e.res = "returned")
    IN  [k \in 1..Len(l) |-> load_excel_file(l[k].arg)]

\* the number of rows of the first n tables together
RECURSIVE RowCount(_, _)
RowCount(tables, n) ==
    IF n = 0 THEN 0 ELSE RowCount(tables, n - 1) + Len(tables[n].rows)

\* the table a completed run has written
Output(th) == Calls(th, "save_excel_file")[1].arg[1]

\* C17: the output of a successful run has as many rows as the loaded
\* tables have together.
C17_RowCount ==
    \A t \in DOMAIN threads :
        LET th == threads[t]
            tables == LoadedTables(th)
        IN  th.pc = "Completed" =>
                /\ Len(tables) = Len(th.input_files)
                /\ Len(Output(th).rows) = RowCount(tables, Len(tables))

\* two rows of a.xlsx, one of b.xls and two of a.xlsx again: five rows
C17_Witness ==
    \E t \in DOMAIN threads :
        /\ threads[t].pc = "Completed"
        /\ Len(threads[t].input_files) = 3
        /\ Len(Output(threads[t]).rows) = 5

\* where columns are found in the tables: <<table, position in its header>>
Positions(tables) ==
    UNION {{<<j, p>> : p \in 1..Len(tables[j].header)} : j \in 1..Len(tables)}

Before(a, b) == a[1] < b[1] \/ (a[1] = b[1] /\ a[2] < b[2])

\* the places where a column of this name, whatever its case, occurs
Occurrences(c, tables) ==
    {pos \in Positions(tables) : lower(tables[pos[1]].header[pos[2]]) = lower(c)}

\* the first of them, the tables taken in order
FirstSeen(c, tables) ==
    CHOOSE pos \in Occurrences(c, tables) :
        \A other \in Occurrences(c, tables) : other = pos \/ Before(pos, other)

\* the table a row of the output comes from
SourceTable(k, tables) ==
    CHOOSE j \in 1..Len(tables) : RowCount(tables, j - 1) < k /\ k <= RowCount(tables, j)

\* C18: the header of the output is the union of the headers of the loaded
\* tables: every column of a table occurs in it once, whatever its case,
\* written as where it is first seen, the columns stand in the order in which
\* they are first seen, and the five metadata columns follow in key order;
\* a row has, in each data column, the cell of its source row if the source
\* table has the column and the empty cell if not.
C18_UnionHeader ==
    \A t \in DOMAIN threads :
        LET th == threads[t]
            tables == LoadedTables(th)
        IN  th.pc = "Completed" =>
            LET out == Output(th)
                n == Len(out.header) - Len(KeyOrder)
                data == SubSeq(out.header, 1, n)
            IN  /\ n >= 0
                /\ SubSeq(out.header, n + 1, Len(out.header)) = KeyOrder
                /\ \A pos \in Positions(tables) :
                    \E i \in 1..n :
                        lower(data[i]) = lower(tables[pos[1]].header[pos[2]])
                /\ \A i \in 1..n :
                    /\ Occurrences(data[i], tables) # {}
                    /\ LET first == FirstSeen(data[i], tables)
                       IN  data[i] = tables[first[1]].header[first[2]]
                    /\ \A j \in (i + 1)..n :
                        /\ lower(data[i]) # lower(data[j])
                        /\ Before(FirstSeen(data[i], tables), FirstSeen(data[j], tables))
                /\ \A k \in 1..Len(out.rows) :
                    LET j == SourceTable(k, tables)
                        source == tables[j].rows[k - RowCount(tables, j - 1)]
                    IN  \A i \in 1..n :
                            LET own == {pos \in Occurrences(data[i], tables) : pos[1] = j}
                            IN  IF own = {} THEN out.rows[k][data[i]] = EmptyCell
                                ELSE \E pos \in own :
                                        out.rows[k][data[i]] =
                                            source[tables[j].header[pos[2]]]

\* b.xls then a.xlsx: the header is name, Region, Amount, the row of b.xls
\* has no Amount and the rows of a.xlsx have no Region
C18_Witness ==
    \E t \in DOMAIN threads :
        LET th == threads[t]
        IN  /\ th.pc = "Completed"
            /\ Len(th.input_files) = 2
            /\ SubSeq(Output(th).header, 1, 3) = <<"name", "Region", "Amount">>
            /\ Output(th).rows[1]["Amount"] = EmptyCell
            /\ Output(th).rows[2]["Region"] = EmptyCell
            /\ Output(th).rows[2]["name"] = <<"x">>

\* C19: every row of the output of a successful run has, in the five
\* metadata columns, the values the run was given.
C19_MetadataInEveryRow ==
    \A t \in DOMAIN threads :
        LET th == threads[t]
        IN  th.pc = "Completed" =>
                \A k \in 1..Len(Output(th).rows), key \in Keys :
                    Output(th).rows[k][key] = th.string_values[key]

\* three rows from two files, each with the trimmed text of the analyst field
C19_Witness ==
    \E t \in DOMAIN threads :
        LET th == threads[t]
        IN  /\ th.pc = "Completed"
            /\ Len(Output(th).rows) = 3
            /\ th.string_values["analyst"] = <<"a">>
            /\ \A k \in 1..3 : Output(th).rows[k]["analyst"] = <<"a">>

----------------------------------------------------------------------------
(* Claims about the progress values *)

\* how many of the first k events of a trace are calls of op
CountTo(tr, k, op) == Cardinality({j \in 1..k : tr[j].op = op})

\* value is the integer part of done * width / total
IntegerPart(value, done, width, total) ==
    /\ value * total <= done * width
    /\ done * width < (value + 1) * total

\* C20: in a run over total >= 1 files, the progress emitted after the
\* validation of the file at index i is the integer part of (i+1)*20/total
\* and the one after its loading is 20 plus the integer part of
\* (i+1)*40/total; so the values of Validating lie in 0..20 and end at 20,
\* those of Loading lie in 20..60 and end at 60; the only other values are
\* 70 before the merge, 85 after it and 100 after the save, and every value
\* is an integer in 0..100.
C20_ProgressValues ==
    \A t \in DOMAIN threads :
        LET th == threads[t]
            tr == th.trace
            total == Len(th.input_files)
        IN  total >= 1 =>
            \A k \in 1..Len(tr) :
                /\ (tr[k].op = "validate_file_accessibility" /\ tr[k].res = "True") =>
                    LET done == CountTo(tr, k, "validate_file_accessibility")
                    IN  /\ k < Len(tr) /\ tr[k + 1].op = "progress_updated"
                        /\ IntegerPart(tr[k + 1].arg, done, 20, total)
                        /\ tr[k + 1].arg \in 0..20
                        /\ done = total => tr[k + 1].arg = 20
                /\ (tr[k].op = "load_excel_file" /\ tr[k].res = "returned") =>
                    LET done == CountTo(tr, k, "load_excel_file")
                    IN  /\ k < Len(tr) /\ tr[k + 1].op = "progress_updated"
                        /\ IntegerPart(tr[k + 1].arg - 20, done, 40, total)
                        /\ tr[k + 1].arg \in 20..60
                        /\ done = total => tr[k + 1].arg = 60
                /\ tr[k].op = "progress_updated" =>
                    /\ tr[k].arg \in 0..100
                    /\ k > 1
                    /\ \/ tr[k - 1].op \in {"validate_file_accessibility", "load_excel_file"}
                       \/ /\ tr[k].arg = 70
                          /\ tr[k - 1].op = "progress_updated" /\ tr[k - 1].arg = 60
                          /\ th.pc \in {"Merging", "Saving", "Finishing"} \cup Terminal
                       \/ tr[k].arg = 85 /\ tr[k - 1].op = "process_files"
                       \/ tr[k].arg = 100 /\ tr[k - 1].op = "save_excel_file"

\* three files: 6, 13, 20 in Validating, 33, 46, 60 in Loading, then 70, 85, 100
C20_Witness ==
    \E t \in DOMAIN threads :
        ProgressOf(threads[t]) = <<6, 13, 20, 33, 46, 60, 70, 85, 100>>

----------------------------------------------------------------------------
(* Claims about the main window *)

MetadataErrors == validate_string_inputs(get_string_values)

\* a thread that process_files created in this step (under an id that is
\* free, or that of the finished thread the window let go of)
NewRun(t) ==
    /\ t \in DOMAIN threads'
    /\ threads'[t].pc = "Validating" /\ threads'[t].trace = <<>>
    /\ t \in DOMAIN threads => threads[t].pc \in Terminal

\* C13: while the validation of the metadata fields reports an error, no
\* click on Process starts a run, and the click that is answered with the
\* list of errors changes nothing: no thread is created, nothing is posted,
\* and the selection, the output path, the fields, the button and the
\* progress bar are as before.
C13_InvalidMetadataRejected ==
    [][/\ MetadataErrors # <<>> =>
            /\ \A t \in ThreadIds : ~NewRun(t)
            /\ rejected' # rejected => rejected' = "Invalid Configuration"
       /\ (rejected' = "Invalid Configuration" /\ rejected' # rejected) =>
            /\ MetadataErrors # <<>>
            /\ UNCHANGED <<input_files, output_path, string_fields, process_btn,
                           progress_bar, processing_thread, threads, queue, opened>>
      ]_vars

\* a click on the enabled button was refused because a field holds only spaces
C13_Witness ==
    /\ rejected = "Invalid Configuration"
    /\ input_files # <<>> /\ output_path # <<>> /\ process_btn
    /\ strip(string_fields["version"]) = <<>>
    /\ string_fields["analyst"] # <<>>
    /\ threads = <<>>

\* every call a run has made was made on what the thread holds
OnCaptured(th) ==
    LET v == Calls(th, "validate_file_accessibility")
        l == Calls(th, "load_excel_file")
        m == Calls(th, "process_files")
        s == Calls(th, "save_excel_file")
    IN  /\ \A k \in 1..Len(v) : k <= Len(th.input_files) /\ v[k].arg = th.input_files[k]
        /\ \A k \in 1..Len(l) : k <= Len(th.input_files) /\ l[k].arg = th.input_files[k]
        /\ \A k \in 1..Len(m) :
            /\ m[k].arg[1] =
                 [j \in 1..Len(th.input_files) |-> load_excel_file(th.input_files[j])]
            /\ m[k].arg[2] = th.string_values
        /\ \A k \in 1..Len(s) :
            /\ s[k].arg[1] = th.processed_data
            /\ s[k].arg[2] = th.output_path

\* C15: a run is started with the selection, the trimmed field values and
\* the output path the window holds at that moment; from then on no step,
\* of the user or of anyone, changes the three, and everything the run
\* validates, loads, merges and saves is taken from them.
C15_InputsCaptured ==
    [][\A t \in ThreadIds :
          /\ NewRun(t) =>
                /\ threads'[t].input_files = input_files
                /\ threads'[t].string_values = get_string_values
                /\ threads'[t].output_path = output_path
          /\ (t \in DOMAIN threads /\ t \in DOMAIN threads' /\ ~NewRun(t)) =>
                /\ threads'[t].input_files = threads[t].input_files
                /\ threads'[t].string_values = threads[t].string_values
                /\ threads'[t].output_path = threads[t].output_path
                /\ OnCaptured(threads'[t])
      ]_vars

\* a run that has just saved, while the window holds another selection,
\* other field values and another output path than it was started with
C15_Witness ==
    \E t \in DOMAIN threads :
        LET th == threads[t]
        IN  /\ th.pc = "Finishing"
            /\ input_files # th.input_files
            /\ get_string_values # th.string_values
            /\ output_path # th.output_path
            /\ Calls(th, "save_excel_file")[1].arg[2] = th.output_path

\* value is text without the spaces it begins and ends with
Trimmed(value, text) ==
    /\ value = <<>> \/ (value[1] # " " /\ value[Len(value)] # " ")
    /\ \E a \in 0..Len(text) :
        /\ a + Len(value) <= Len(text)
        /\ SubSeq(text, a + 1, a + Len(value)) = value
        /\ \A i \in 1..Len(text) :
            (i <= a \/ i > a + Len(value)) => text[i] = " "

C22_OpensSavedFile ==
    [][(/\ queue # <<>>
        /\ Head(queue).sig = "processing_complete"
        /\ queue' = Tail(queue)
        /\ opened' # <<>>) =>
            /\ basename(opened') = Head(queue).arg[4]
            /\ Head(queue).thread \in DOMAIN threads =>
                opened' = threads[Head(queue).thread].output_path
      ]_vars

----------------------------------------------------------------------------
(* Claims about the selection of files *)

\* the positions of the offered paths that is_valid_excel_file accepted
Passed(o) == {i \in 1..Len(o.urls) : o.verdict[i]}

\* the k-th of them
KthPassed(o, k) ==
    CHOOSE i \in Passed(o) : Cardinality({j \in Passed(o) : j < i}) = k - 1

\* the accepted paths, in the order they were offered
Accepted(o) == [k \in 1..Cardinality(Passed(o)) |-> o.urls[KthPassed(o, k)]]

\* C23: a drop or a dialog selection in which is_valid_excel_file accepts
\* at least one path makes input_files the accepted paths of that action, in
\* the order they were offered, and nothing of the earlier selection stays;
\* one in which no path is accepted leaves input_files as it was; nothing
\* else changes input_files.
C23_SelectionReplaced ==
    [][/\ (offered # <<>> /\ offered' # <<>>
           /\ ~Head(offered).handled /\ Head(offered').handled) =>
                IF Passed(Head(offered)) # {}
                THEN input_files' = Accepted(Head(offered))
                ELSE input_files' = input_files
       /\ input_files' # input_files =>
            /\ offered' # <<>> /\ Head(offered').handled
            /\ \A k \in 1..Len(input_files') :
                \E i \in Passed(Head(offered')) : Head(offered').urls[i] = input_files'[k]
      ]_vars

\* three paths were dropped, the second was not accepted: the selection is
\* the first and the third
C23_Witness ==
    /\ offered # <<>> /\ Head(offered).handled
    /\ Head(offered).verdict = <<TRUE, FALSE, TRUE>>
    /\ Head(offered).urls[1] # Head(offered).urls[3]
    /\ input_files = <<Head(offered).urls[1], Head(offered).urls[3]>>

----------------------------------------------------------------------------
(* Claims about the Process button and the progress bar *)

\* a run is active: a thread was started and has not ended, or its outcome
\* signal waits for the main thread
RunActive ==
    \/ \E t \in DOMAIN threads : threads[t].pc \notin Terminal
    \/ queue # <<>>

\* C24: while the window lives, the Process button is enabled exactly when
\* no run is active and both a selection of input files and an output path
\* are set, and the progress bar is visible exactly when a run is active.
C24_ButtonAndBar ==
    ~crashed =>
        /\ process_btn <=> (~RunActive /\ input_files # <<>> /\ output_path # <<>>)
        /\ progress_bar <=> RunActive

====
